---- MODULE Spec2Model ----
(***************************************************************************)
(* We-Vote: the storage schema, its row-level-security policies and the    *)
(* get_vote_counts procedure (supabase/migrations/2025111714...sql), and   *)
(* the page handlers that call them (Admin page, VotePage, ResultsPage,    *)
(* Dashboard).  Every storage statement is one atomic step; a handler is   *)
(* one step per awaited storage call, so other clients interleave between  *)
(* its awaits.                                                             *)
(***************************************************************************)
EXTENDS Naturals, FiniteSets, Sequences, Bags, TLC

\* ---------------------------------------------------------------- bounds
MaxUsers == 2        \* principals that can sign up
MaxCreates == 2      \* handleCreateElection calls
MaxForm == 2         \* candidate rows on the create-election form
MaxCasts == 2        \* VotePage sessions (castVote calls)
MaxSignIns == 1      \* sign-ins per principal after its signup
MaxViews == 1        \* ResultsPage sessions
MaxCandidateId == 6  \* candidate ids handed out to statements sent outside the pages
MaxVoteId == 2       \* vote ids handed out to statements sent outside the pages
MaxRows == 2         \* tally rows on a results page when it is exported
MaxVotes == 3        \* votes of one tally row when it is exported

\* ------------------------------------------------------- program constants
Roles == {"admin", "student"}
Statuses == {"draft", "active", "closed"}

\* Texts are character sequences: "" is << >>.  StudentId(k) is the k-th
\* student number; NoStudentId is signup metadata that carries none (SQL NULL).
StudentId(k) == <<"s", k>>
NoStudentId == <<"NULL">>

\* Candidate names typed into the form, as character sequences; the name
\* input is `required`, so the browser submits no empty one.
FormNames == {<<" ">>, <<"A">>}

CreateSessions == 1..MaxCreates
CastSessions == 1..MaxCasts
ViewSessions == 1..MaxViews
Forms == UNION {[1..n -> FormNames] : n \in 1..MaxForm}

VARIABLES
  users,            \* auth.users: ids of the principals that signed up
  profiles,         \* public.profiles: user id -> student_id
  user_roles,       \* public.user_roles: bag of <<user_id, role>> (a row's id is not kept)
  elections,        \* public.elections: id -> [status, created_by]
  candidates,       \* public.candidates: id -> [election_id, name]
  votes,            \* public.votes: set of rows
  audit_logs,       \* public.audit_logs: set of rows
  nextElectionId,   \* gen_random_uuid() never repeats: ids are handed out in order
  nextCandidateId,
  nextVoteId,
  create,           \* handleCreateElection calls: session -> position and locals
  cast,             \* VotePage sessions: session -> position and locals
  signIns,          \* auth sessions opened so far: user id -> count
  reply,            \* the storage's answer to the latest signup, or statement a
                    \* client sent to user_roles or candidates outside the pages
  views             \* ResultsPage sessions: view -> position and locals

tables == <<users, profiles, user_roles, elections, candidates, votes, audit_logs>>
ids == <<nextElectionId, nextCandidateId, nextVoteId>>
client == <<signIns, reply, views>>
vars == <<users, profiles, user_roles, elections, candidates, votes, audit_logs,
          nextElectionId, nextCandidateId, nextVoteId, create, cast, signIns, reply, views>>

\* Calls are numbered in the order they start.
IdleCreate == [pc |-> "idle", user |-> 0, electionId |-> 0, form |-> << >>, outcome |-> "none"]
IdleCast == [pc |-> "idle", user |-> 0, electionId |-> 0, outcome |-> "none"]
IdleView == [pc |-> "idle", user |-> 0, electionId |-> 0, events |-> 0, refreshes |-> 0,
             calls |-> 0, selected |-> 0, inflight |-> EmptyBag,
             results |-> << >>, totalVotes |-> 0, download |-> << >>]
NoReply == [by |-> 0, outcome |-> "none", rows |-> 0]
NoClient ==
  /\ signIns = [u \in 1..MaxUsers |-> 0]
  /\ reply = NoReply
  /\ views = [v \in ViewSessions |-> IdleView]

Init ==
  /\ users = {}
  /\ profiles = << >>
  /\ user_roles = EmptyBag
  /\ elections = << >>
  /\ candidates = << >>
  /\ votes = {}
  /\ audit_logs = {}
  /\ nextElectionId = 1
  /\ nextCandidateId = 1
  /\ nextVoteId = 1
  /\ create = [s \in CreateSessions |-> IdleCreate]
  /\ cast = [s \in CastSessions |-> IdleCast]
  /\ NoClient

\* ------------------------------------------------------------ identity

has_role(_user_id, _role) == BagIn(<<_user_id, _role>>, user_roles)

\* COALESCE(new.raw_user_meta_data->>'student_id', '')
CoalesceStudentId(meta) == IF meta = NoStudentId THEN << >> ELSE meta

Reply(by, outcome, rows) == [by |-> by, outcome |-> outcome, rows |-> rows]

\* Mutant: the trigger's failure does not undo the insert into auth.users.
handle_new_user_KeepsPrincipal(meta) ==
  LET id == Cardinality(users) + 1
      sid == CoalesceStudentId(meta)
  IN /\ id <= MaxUsers
     /\ users' = users \cup {id}
     /\ IF \E p \in DOMAIN profiles : profiles[p] = sid
          THEN /\ UNCHANGED <<profiles, user_roles>>
               /\ reply' = Reply(id, "DuplicateStudentId", 0)
          ELSE /\ profiles' = profiles @@ (id :> sid)
               /\ user_roles' = user_roles (+) SetToBag({<<id, "student">>})
               /\ reply' = Reply(id, "ok", 1)
     /\ UNCHANGED <<signIns, views, elections, candidates, votes, audit_logs, ids, create, cast>>

\* INSERT INTO auth.users fires on_auth_user_created; the trigger runs in the
\* inserting transaction, so a failed insert inside it undoes the signup.
handle_new_user(meta) ==
  LET id == Cardinality(users) + 1
      sid == CoalesceStudentId(meta)
  IN /\ id <= MaxUsers
     /\ IF \E p \in DOMAIN profiles : profiles[p] = sid
          THEN /\ UNCHANGED <<users, profiles, user_roles>>     \* profiles.student_id UNIQUE
               /\ reply' = Reply(id, "DuplicateStudentId", 0)
          ELSE /\ users' = users \cup {id}
               /\ profiles' = profiles @@ (id :> sid)
               /\ user_roles' = user_roles (+) SetToBag({<<id, "student">>})
               /\ reply' = Reply(id, "ok", 1)
     /\ UNCHANGED <<signIns, views, elections, candidates, votes, audit_logs, ids, create, cast>>

\* A signup carries no student number, one already taken, or a new one.
SignUp ==
  \E meta \in {NoStudentId} \cup {StudentId(k) : k \in 1..(Cardinality(users) + 1)} :
    handle_new_user(meta)

\* The admin role is given outside the application (service role / SQL console).
GrantAdminOutOfBand(u) ==
  /\ u \in users
  /\ ~has_role(u, "admin")
  /\ user_roles' = user_roles (+) SetToBag({<<u, "admin">>})
  /\ UNCHANGED <<client, users, profiles, elections, candidates, votes, audit_logs, ids, create, cast>>

\* Signing in opens a session for a principal that exists; it inserts nothing
\* into auth.users, so on_auth_user_created does not fire.
SignIn(u) ==
  /\ u \in users
  /\ signIns[u] < MaxSignIns
  /\ signIns' = [signIns EXCEPT ![u] = @ + 1]
  /\ UNCHANGED <<tables, ids, create, cast, reply, views>>

\* ------------------------------------------------- row-level security

\* "Users can view all roles", or "Only admins can manage roles": the
\* policies of one command are OR-ed.
UserRolesSelectPolicy(uid, row) == TRUE \/ has_role(uid, "admin")
\* Mutant: every authenticated principal may manage roles.
UserRolesManagePolicy_Everyone(uid) == TRUE
\* "Only admins can manage roles" (FOR ALL: its USING is also the WITH CHECK)
UserRolesManagePolicy(uid) == has_role(uid, "admin")
\* Mutant: the table without its UNIQUE(user_id, role) constraint.
UserRolesUniqueViolation_NoConstraint(user_id, role) == FALSE
\* UNIQUE(user_id, role)
UserRolesUniqueViolation(user_id, role) == BagIn(<<user_id, role>>, user_roles)

\* Mutant: the select policy without its condition.
ElectionsSelectPolicy_AllRows(uid, row) == TRUE
\* "Everyone can view active elections"
ElectionsSelectPolicy(uid, row) == row.status = "active" \/ has_role(uid, "admin")
\* Mutant: the insert policy lets every authenticated principal in.
ElectionsInsertPolicy_Everyone(uid) == TRUE
\* "Only admins can create elections"
ElectionsInsertPolicy(uid) == has_role(uid, "admin")
\* "Only admins can update elections"
ElectionsUpdatePolicy(uid) == has_role(uid, "admin")
\* "Only admins can delete elections"
ElectionsDeletePolicy(uid) == has_role(uid, "admin")
\* "Only admins can manage candidates" (FOR ALL: its USING is also the WITH CHECK)
CandidatesManagePolicy(uid) == has_role(uid, "admin")
\* "Users can view own votes in non-anonymous elections"
VotesSelectPolicy(uid, v) == v.voter_id = uid \/ has_role(uid, "admin")
\* Mutant: the policy admits every row an authenticated principal sends.
VotesInsertPolicy_AnyVoter(uid, voter_id) == TRUE
\* "Users can cast votes"
VotesInsertPolicy(uid, voter_id) == voter_id = uid
\* votes has no UPDATE and no DELETE policy: with row-level security enabled,
\* such a statement sees no row.
VotesUpdatePolicy(uid, v) == FALSE
VotesDeletePolicy(uid, v) == FALSE

\* Mutant: candidates.election_id without its REFERENCES elections(id).
CandidatesForeignKeyViolation_NoReference(election_id) == FALSE
\* candidates.election_id REFERENCES public.elections(id)
CandidatesForeignKeyViolation(election_id) == election_id \notin DOMAIN elections

\* Mutant: the table without its UNIQUE(election_id, voter_id) constraint.
VotesUniqueViolation_NoConstraint(election_id, voter_id) == FALSE

\* UNIQUE(election_id, voter_id)
VotesUniqueViolation(election_id, voter_id) ==
  \E v \in votes : v.election_id = election_id /\ v.voter_id = voter_id

CandidatesOf(election_id) == {c \in DOMAIN candidates : candidates[c].election_id = election_id}

\* SELECT user_id, role FROM user_roles, as uid
SelectUserRoles(uid) == {row \in BagToSet(user_roles) : UserRolesSelectPolicy(uid, row)}

\* INSERT INTO user_roles (user_id, role), sent by u: the WITH CHECK policy,
\* then the unique index, then the foreign key to auth.users.
InsertUserRole(u, user_id, role) ==
  /\ u \in users
  /\ LET error == IF ~UserRolesManagePolicy(u) THEN "PermissionDenied"
                  ELSE IF UserRolesUniqueViolation(user_id, role) THEN "DuplicateRole"
                  ELSE IF user_id \notin users THEN "ForeignKeyViolation"
                  ELSE "ok"
     IN /\ user_roles' = IF error = "ok" THEN user_roles (+) SetToBag({<<user_id, role>>})
                         ELSE user_roles
        /\ reply' = Reply(u, error, IF error = "ok" THEN 1 ELSE 0)
  /\ UNCHANGED <<users, profiles, elections, candidates, votes, audit_logs, ids, create, cast,
                 signIns, views>>

\* UPDATE user_roles SET role = newRole WHERE user_id = ... AND role = ...,
\* sent by u: a row the policy hides is not updated and no error is raised.
UpdateUserRole(u, user_id, role, newRole) ==
  /\ u \in users
  /\ LET old == SetToBag({<<user_id, role>>})
         hit == UserRolesManagePolicy(u) /\ BagIn(<<user_id, role>>, user_roles) /\ newRole # role
         error == IF hit /\ UserRolesUniqueViolation(user_id, newRole) THEN "DuplicateRole" ELSE "ok"
     IN /\ user_roles' = IF hit /\ error = "ok"
                           THEN (user_roles (-) old) (+) SetToBag({<<user_id, newRole>>})
                           ELSE user_roles
        /\ reply' = Reply(u, error, IF hit /\ error = "ok" THEN 1 ELSE 0)
  /\ UNCHANGED <<users, profiles, elections, candidates, votes, audit_logs, ids, create, cast,
                 signIns, views>>

\* DELETE FROM user_roles WHERE user_id = ... AND role = ..., sent by u
DeleteUserRole(u, user_id, role) ==
  /\ u \in users
  /\ LET hit == UserRolesManagePolicy(u) /\ BagIn(<<user_id, role>>, user_roles)
     IN /\ user_roles' = IF hit THEN user_roles (-) SetToBag({<<user_id, role>>}) ELSE user_roles
        /\ reply' = Reply(u, "ok", IF hit THEN 1 ELSE 0)
  /\ UNCHANGED <<users, profiles, elections, candidates, votes, audit_logs, ids, create, cast,
                 signIns, views>>

\* ------------------------------------------------ election administration

RECURSIVE TrimStart(_)
TrimStart(name) ==
  IF name # << >> /\ Head(name) = " " THEN TrimStart(Tail(name)) ELSE name

RECURSIVE TrimEnd(_)
TrimEnd(name) ==
  IF name # << >> /\ name[Len(name)] = " " THEN TrimEnd(SubSeq(name, 1, Len(name) - 1)) ELSE name

\* String.prototype.trim
Trim(name) == TrimEnd(TrimStart(name))

\* Mutant: the name compared without trim().
IsValidCandidate_NoTrim(name) == name # << >>

IsValidCandidate(name) == Trim(name) # << >>

\* candidates.filter((c) => c.name.trim() !== "")
ValidCandidates(form) == SelectSeq(form, IsValidCandidate)

CreateDone(s, outcome) ==
  create' = [create EXCEPT ![s] = [@ EXCEPT !.pc = "done", !.form = << >>, !.outcome = outcome]]

\* handleCreateElection up to its first await: the form check, then the insert
\* into elections.  fail: the request does not reach the storage (network).
handleCreateElection(s, u, status, form, fail) ==
  /\ create[s].pc = "idle"
  /\ IF s = 1 THEN TRUE ELSE create[s - 1].pc # "idle"
  /\ u \in users
  /\ LET validCandidates == ValidCandidates(form) IN
     IF Len(validCandidates) < 2
       THEN /\ create' = [create EXCEPT ![s] = [IdleCreate EXCEPT !.pc = "done", !.user = u,
                                                  !.outcome = "ValidationError"]]
            /\ UNCHANGED <<elections, nextElectionId>>
       ELSE IF fail
         THEN /\ create' = [create EXCEPT ![s] = [IdleCreate EXCEPT !.pc = "done", !.user = u,
                                                    !.outcome = "DependencyFailure"]]
              /\ UNCHANGED <<elections, nextElectionId>>
         ELSE IF ~ElectionsInsertPolicy(u)
           THEN /\ create' = [create EXCEPT ![s] = [IdleCreate EXCEPT !.pc = "done", !.user = u,
                                                      !.outcome = "PermissionDenied"]]
                /\ UNCHANGED <<elections, nextElectionId>>
           ELSE /\ elections' = elections @@
                      (nextElectionId :> [status |-> status, created_by |-> u])
                /\ nextElectionId' = nextElectionId + 1
                /\ create' = [create EXCEPT ![s] = [pc |-> "candidates", user |-> u,
                                 electionId |-> nextElectionId, form |-> validCandidates,
                                 outcome |-> "none"]]
  /\ UNCHANGED <<client, users, profiles, user_roles, candidates, votes, audit_logs,
                 nextCandidateId, nextVoteId, cast>>

\* The second await: one INSERT of all the candidate rows.
InsertCandidates(s, fail) ==
  /\ create[s].pc = "candidates"
  /\ LET n == Len(create[s].form)
         e == create[s].electionId
     IN IF fail
          THEN CreateDone(s, "DependencyFailure") /\ UNCHANGED <<candidates, nextCandidateId>>
          ELSE IF ~CandidatesManagePolicy(create[s].user)
            THEN CreateDone(s, "PermissionDenied") /\ UNCHANGED <<candidates, nextCandidateId>>
            ELSE IF CandidatesForeignKeyViolation(e)
              THEN CreateDone(s, "ForeignKeyViolation") /\ UNCHANGED <<candidates, nextCandidateId>>
              ELSE /\ candidates' = candidates @@
                        [c \in nextCandidateId..(nextCandidateId + n - 1) |->
                           [election_id |-> e, name |-> create[s].form[c - nextCandidateId + 1]]]
                   /\ nextCandidateId' = nextCandidateId + n
                   /\ create' = [create EXCEPT ![s].pc = "audit", ![s].form = << >>]
  /\ UNCHANGED <<client, users, profiles, user_roles, elections, votes, audit_logs,
                 nextElectionId, nextVoteId, cast>>

\* An audit row; its generated id is told apart by the call that wrote it.
AuditRow(s, user_id, action, election_id) ==
  [id |-> <<action, s>>, user_id |-> user_id, action |-> action, election_id |-> election_id]

\* The third await: the audit row; its result is not looked at.
LogElectionCreated(s, fail) ==
  /\ create[s].pc = "audit"
  /\ audit_logs' = IF fail THEN audit_logs
                   ELSE audit_logs \cup {AuditRow(s, create[s].user, "election_created", create[s].electionId)}
  /\ CreateDone(s, "success")
  /\ UNCHANGED <<client, users, profiles, user_roles, elections, candidates, votes, ids, cast>>

\* Mutant: the references to elections without ON DELETE CASCADE checks.
DeleteElectionRows_NoCascade(election_id) ==
  /\ elections' = [x \in DOMAIN elections \ {election_id} |-> elections[x]]
  /\ UNCHANGED <<candidates, votes>>

\* ON DELETE CASCADE: candidates.election_id, votes.election_id, votes.candidate_id
DeleteElectionRows(election_id) ==
  /\ elections' = [x \in DOMAIN elections \ {election_id} |-> elections[x]]
  /\ candidates' = [c \in DOMAIN candidates \ CandidatesOf(election_id) |-> candidates[c]]
  /\ votes' = {v \in votes : v.election_id # election_id
                              /\ v.candidate_id \notin CandidatesOf(election_id)}

\* The error of DELETE FROM elections WHERE id = ... sent by u: the USING
\* policy only narrows the rows the statement sees, and a statement that finds
\* no row to delete is not an error.  fail: the request does not reach the storage.
ElectionsDeleteError(u, id, fail) == IF fail THEN "DependencyFailure" ELSE "none"

\* The error of UPDATE elections ... WHERE id = ... sent by u, likewise.
ElectionsUpdateError(u, id, fail) == IF fail THEN "DependencyFailure" ELSE "none"

\* The message handleDeleteElection shows for the statement's result.
handleDeleteElectionToast(u, id, fail) ==
  IF ElectionsDeleteError(u, id, fail) # "none"
    THEN "Failed to delete election"
    ELSE "Election deleted successfully"

\* supabase.from("elections").delete().eq("id", id)
handleDeleteElection(u, id) ==
  /\ u \in users
  /\ IF id \in DOMAIN elections /\ ElectionsDeletePolicy(u)
       THEN DeleteElectionRows(id)
       ELSE UNCHANGED <<elections, candidates, votes>>
  /\ UNCHANGED <<client, users, profiles, user_roles, audit_logs, ids, create, cast>>

\* UPDATE elections SET status = ... WHERE id = ...
UpdateElection(u, id, status) ==
  /\ u \in users
  /\ IF id \in DOMAIN elections /\ ElectionsUpdatePolicy(u)
       THEN elections' = [elections EXCEPT ![id].status = status]
       ELSE UNCHANGED elections
  /\ UNCHANGED <<client, users, profiles, user_roles, candidates, votes, audit_logs, ids, create, cast>>

\* INSERT INTO candidates (election_id, name), sent by u: the WITH CHECK
\* policy, then the foreign key.
InsertCandidate(u, election_id, name) ==
  /\ u \in users
  /\ nextCandidateId <= MaxCandidateId
  /\ LET error == IF ~CandidatesManagePolicy(u) THEN "PermissionDenied"
                  ELSE IF CandidatesForeignKeyViolation(election_id) THEN "ForeignKeyViolation"
                  ELSE "ok"
     IN /\ IF error = "ok"
             THEN /\ candidates' = candidates @@
                       (nextCandidateId :> [election_id |-> election_id, name |-> name])
                  /\ nextCandidateId' = nextCandidateId + 1
             ELSE UNCHANGED <<candidates, nextCandidateId>>
        /\ reply' = Reply(u, error, IF error = "ok" THEN 1 ELSE 0)
  /\ UNCHANGED <<users, profiles, user_roles, elections, votes, audit_logs,
                 nextElectionId, nextVoteId, create, cast, signIns, views>>

\* UPDATE candidates SET election_id = ... WHERE id = ..., sent by u: a row the
\* policy hides is not updated and no error is raised.
UpdateCandidate(u, c, election_id) ==
  /\ u \in users
  /\ LET hit == CandidatesManagePolicy(u) /\ c \in DOMAIN candidates
         error == IF hit /\ CandidatesForeignKeyViolation(election_id)
                    THEN "ForeignKeyViolation" ELSE "ok"
     IN /\ candidates' = IF hit /\ error = "ok"
                           THEN [candidates EXCEPT ![c].election_id = election_id]
                           ELSE candidates
        /\ reply' = Reply(u, error, IF hit /\ error = "ok" THEN 1 ELSE 0)
  /\ UNCHANGED <<users, profiles, user_roles, elections, votes, audit_logs, ids, create, cast,
                 signIns, views>>

\* DELETE FROM candidates WHERE id = ...
DeleteCandidate(u, c) ==
  /\ u \in users
  /\ IF c \in DOMAIN candidates /\ CandidatesManagePolicy(u)
       THEN /\ candidates' = [x \in DOMAIN candidates \ {c} |-> candidates[x]]
            /\ votes' = {v \in votes : v.candidate_id # c}
       ELSE UNCHANGED <<candidates, votes>>
  /\ UNCHANGED <<client, users, profiles, user_roles, elections, audit_logs, ids, create, cast>>

\* -------------------------------------------------------- ballot ledger

\* VotePage mounts for the signed-in user and the election of the URL.
OpenVotePage(s, u, electionId) ==
  /\ cast[s].pc = "idle"
  /\ IF s = 1 THEN TRUE ELSE cast[s - 1].pc # "idle"
  /\ u \in users
  /\ cast' = [cast EXCEPT ![s] = [IdleCast EXCEPT !.pc = "mounted", !.user = u,
                                   !.electionId = electionId]]
  /\ UNCHANGED <<client, tables, ids, create>>

\* The rows of votes a SELECT by uid returns.
VisibleVotes(uid) == {v \in votes : VotesSelectPolicy(uid, v)}

\* checkIfAlreadyVoted: leaves the page when the lookup finds the user's vote.
\* The submit button does not wait for it.
checkIfAlreadyVoted(s) ==
  /\ cast[s].pc = "mounted"
  /\ LET data == {v \in VisibleVotes(cast[s].user) :
                     v.election_id = cast[s].electionId /\ v.voter_id = cast[s].user}
     IN IF data # {}
          THEN cast' = [cast EXCEPT ![s].pc = "done", ![s].outcome = "AlreadyVoted"]
          ELSE UNCHANGED cast
  /\ UNCHANGED <<client, tables, ids, create>>

\* Mutant: uniqueness left to the client's lookup, the insert checks none.
InsertVote_CheckThenInsert(uid, election_id, candidate_id, voter_id) ==
  IF ~VotesInsertPolicy(uid, voter_id) THEN "PermissionDenied"
  ELSE IF election_id \notin DOMAIN elections \/ candidate_id \notin DOMAIN candidates
    THEN "ForeignKeyViolation"
  ELSE "ok"

\* INSERT INTO votes (election_id, candidate_id, voter_id): the WITH CHECK
\* policy, then the unique index, then the foreign keys at the statement's end.
InsertVote(uid, election_id, candidate_id, voter_id) ==
  IF ~VotesInsertPolicy(uid, voter_id) THEN "PermissionDenied"
  ELSE IF VotesUniqueViolation(election_id, voter_id) THEN "DuplicateVote"
  ELSE IF election_id \notin DOMAIN elections \/ candidate_id \notin DOMAIN candidates
    THEN "ForeignKeyViolation"
  ELSE "ok"

\* The votes table is in the supabase_realtime publication: a committed insert
\* is sent to every channel subscribed with a matching filter whose principal
\* may SELECT the new row.
BroadcastInsert(row) ==
  [v \in ViewSessions |->
     IF /\ views[v].pc = "subscribed"
        /\ views[v].electionId = row.election_id
        /\ VotesSelectPolicy(views[v].user, row)
       THEN [views[v] EXCEPT !.events = @ + 1]
       ELSE views[v]]

\* handleSubmitVote up to its first await: the insert into votes.
handleSubmitVote(s, selectedCandidate, fail) ==
  /\ cast[s].pc = "mounted"
  /\ LET u == cast[s].user
         e == cast[s].electionId
         error == IF fail THEN "DependencyFailure" ELSE InsertVote(u, e, selectedCandidate, u)
     IN IF error = "ok"
          THEN /\ votes' = votes \cup {[id |-> nextVoteId, election_id |-> e,
                                        candidate_id |-> selectedCandidate, voter_id |-> u]}
               /\ nextVoteId' = nextVoteId + 1
               /\ cast' = [cast EXCEPT ![s].pc = "audit"]
               /\ views' = BroadcastInsert([id |-> nextVoteId, election_id |-> e,
                                            candidate_id |-> selectedCandidate, voter_id |-> u])
          ELSE /\ cast' = [cast EXCEPT ![s].pc = "done", ![s].outcome = error]
               /\ UNCHANGED <<votes, nextVoteId, views>>
  /\ UNCHANGED <<signIns, reply, users, profiles, user_roles, elections, candidates, audit_logs,
                 nextElectionId, nextCandidateId, create>>

\* votes.voter_id is nullable: an insert that names no voter carries NULL.
NoVoter == 0

\* INSERT INTO votes (election_id, candidate_id, voter_id) sent by u outside
\* the page, for any voter_id or none.
InsertVoteAs(u, election_id, candidate_id, voter_id) ==
  /\ u \in users
  /\ nextVoteId <= MaxVoteId
  /\ LET error == InsertVote(u, election_id, candidate_id, voter_id)
         row == [id |-> nextVoteId, election_id |-> election_id,
                 candidate_id |-> candidate_id, voter_id |-> voter_id]
     IN /\ IF error = "ok"
             THEN /\ votes' = votes \cup {row}
                  /\ nextVoteId' = nextVoteId + 1
                  /\ views' = BroadcastInsert(row)
             ELSE UNCHANGED <<votes, nextVoteId, views>>
        /\ reply' = Reply(u, error, IF error = "ok" THEN 1 ELSE 0)
  /\ UNCHANGED <<users, profiles, user_roles, elections, candidates, audit_logs,
                 nextElectionId, nextCandidateId, create, cast, signIns>>

\* Mutant: a failed audit insert is thrown like the vote insert's error.
LogVoteCast_Fatal(s, fail) ==
  /\ cast[s].pc = "audit"
  /\ audit_logs' = IF fail THEN audit_logs
                   ELSE audit_logs \cup {AuditRow(s, cast[s].user, "vote_cast", cast[s].electionId)}
  /\ cast' = [cast EXCEPT ![s].pc = "done",
                          ![s].outcome = IF fail THEN "DependencyFailure" ELSE "success"]
  /\ UNCHANGED <<client, users, profiles, user_roles, elections, candidates, votes, ids, create>>

\* The second await: the audit row; its result is not looked at.
LogVoteCast(s, fail) ==
  /\ cast[s].pc = "audit"
  /\ audit_logs' = IF fail THEN audit_logs
                   ELSE audit_logs \cup {AuditRow(s, cast[s].user, "vote_cast", cast[s].electionId)}
  /\ cast' = [cast EXCEPT ![s].pc = "done", ![s].outcome = "success"]
  /\ UNCHANGED <<client, users, profiles, user_roles, elections, candidates, votes, ids, create>>

\* error.message of a failed request: the text the storage (or, when the
\* request did not reach it, the fetch call) puts in the error, here without
\* the quoted relation and constraint names.
StorageErrorText(outcome) ==
  CASE outcome = "DuplicateVote" -> "duplicate key value violates unique constraint"
    [] outcome = "PermissionDenied" -> "new row violates row-level security policy"
    [] outcome = "ForeignKeyViolation" -> "insert or update on table violates foreign key constraint"
    [] outcome = "DependencyFailure" -> "TypeError: Failed to fetch"
    [] OTHER -> ""

\* The toast a VotePage session ends with.
handleSubmitVoteToast(outcome) ==
  CASE outcome = "success" -> "Vote submitted successfully!"
    [] outcome = "AlreadyVoted" -> "You have already voted in this election"
    [] OTHER -> IF StorageErrorText(outcome) # "" THEN StorageErrorText(outcome)
                ELSE "Failed to submit vote"

\* The toast a handleCreateElection call ends with.
handleCreateElectionToast(outcome) ==
  CASE outcome = "success" -> "Election created successfully!"
    [] outcome = "ValidationError" -> "Please add at least 2 candidates"
    [] OTHER -> IF StorageErrorText(outcome) # "" THEN StorageErrorText(outcome)
                ELSE "Failed to create election"

\* ResultsPage mounts for the signed-in user: the first fetchResults, and the
\* subscription to INSERT on votes filtered by election_id.
OpenResultsPage(v, u, electionId) ==
  /\ views[v].pc = "idle"
  /\ IF v = 1 THEN TRUE ELSE views[v - 1].pc # "idle"
  /\ u \in users
  /\ views' = [views EXCEPT ![v] = [IdleView EXCEPT !.pc = "subscribed", !.user = u,
                                     !.electionId = electionId, !.calls = 1]]
  /\ UNCHANGED <<tables, ids, create, cast, signIns, reply>>

\* The subscription's callback: one change event arrives, fetchResults runs.
OnVoteInsert(v) ==
  /\ views[v].pc = "subscribed"
  /\ views[v].events > 0
  /\ views' = [views EXCEPT ![v].events = @ - 1, ![v].refreshes = @ + 1, ![v].calls = @ + 1]
  /\ UNCHANGED <<tables, ids, create, cast, signIns, reply>>

\* The page unmounts: supabase.removeChannel(channel).
CloseResultsPage(v) ==
  /\ views[v].pc = "subscribed"
  /\ views' = [views EXCEPT ![v] = [IdleView EXCEPT !.pc = "closed"]]
  /\ UNCHANGED <<tables, ids, create, cast, signIns, reply>>

\* UPDATE votes SET candidate_id = ... WHERE id = ..., by any principal
UpdateVote(u, id, candidate_id) ==
  /\ u \in users
  /\ candidate_id \in DOMAIN candidates
  /\ votes' = {IF v.id = id /\ VotesUpdatePolicy(u, v)
                 THEN [v EXCEPT !.candidate_id = candidate_id] ELSE v : v \in votes}
  /\ UNCHANGED <<client, users, profiles, user_roles, elections, candidates, audit_logs, ids, create, cast>>

\* DELETE FROM votes WHERE id = ..., by any principal
DeleteVote(u, id) ==
  /\ u \in users
  /\ votes' = {v \in votes : ~(v.id = id /\ VotesDeletePolicy(u, v))}
  /\ UNCHANGED <<client, users, profiles, user_roles, elections, candidates, audit_logs, ids, create, cast>>

\* ---------------------------------------------------------------- reads

\* SELECT * FROM elections [WHERE status = filter], as uid
SelectElections(uid, filter) ==
  {e \in DOMAIN elections :
     /\ ElectionsSelectPolicy(uid, elections[e])
     /\ filter = "none" \/ elections[e].status = filter}

\* "Everyone can view candidates"
CandidatesSelectPolicy(uid, row) == TRUE

\* SELECT * FROM candidates WHERE election_id = ..., as uid
SelectCandidates(uid, election_id) ==
  {c \in CandidatesOf(election_id) : CandidatesSelectPolicy(uid, candidates[c])}

\* Dashboard.fetchElections: .eq("status", "active")
fetchElections(uid) == SelectElections(uid, "active")

\* FROM candidates c LEFT JOIN votes v ON c.id = v.candidate_id
\* WHERE c.election_id = election_uuid GROUP BY c.id, c.name;
\* the function is SECURITY INVOKER, so votes is read under the caller's policy.
VoteCountRows(election_uuid, uid) ==
  {[candidate_id |-> c, candidate_name |-> candidates[c].name,
    vote_count |-> Cardinality({v \in VisibleVotes(uid) : v.candidate_id = c})] :
      c \in CandidatesOf(election_uuid)}

\* ORDER BY vote_count DESC: every order the sort may return (ties in any order)
RECURSIVE OrderByVoteCountDesc(_)
OrderByVoteCountDesc(rows) ==
  IF rows = {} THEN {<< >>}
  ELSE LET first == {r \in rows : \A q \in rows : r.vote_count >= q.vote_count}
       IN UNION {{<<r>> \o rest : rest \in OrderByVoteCountDesc(rows \ {r})} : r \in first}

\* Mutant: JOIN instead of LEFT JOIN, which drops the candidates without votes.
get_vote_counts_InnerJoin(election_uuid, uid) ==
  OrderByVoteCountDesc({r \in VoteCountRows(election_uuid, uid) : r.vote_count > 0})

get_vote_counts(election_uuid, uid) == OrderByVoteCountDesc(VoteCountRows(election_uuid, uid))

\* fetchResults, first await: the election row comes back, or the error that
\* ends this call in the catch block (a toast; results are left as they are).
fetchResultsElection(v) ==
  /\ views[v].pc = "subscribed"
  /\ views[v].calls > 0
  /\ views' = [views EXCEPT ![v].calls = @ - 1,
                             ![v].selected = IF views[v].electionId \in SelectElections(views[v].user, "none")
                                               THEN @ + 1 ELSE @]
  /\ UNCHANGED <<tables, ids, create, cast, signIns, reply>>

\* fetchResults, second await: get_vote_counts runs at the storage as the
\* viewer; its rows are on their way back.
fetchResultsRpc(v) ==
  /\ views[v].pc = "subscribed"
  /\ views[v].selected > 0
  /\ \E data \in get_vote_counts(views[v].electionId, views[v].user) :
       views' = [views EXCEPT ![v].selected = @ - 1,
                              ![v].inflight = @ (+) SetToBag({data})]
  /\ UNCHANGED <<tables, ids, create, cast, signIns, reply>>

RECURSIVE SumVoteCounts(_)
\* resultsData.reduce((sum, r) => sum + Number(r.vote_count), 0)
SumVoteCounts(resultsData) ==
  IF resultsData = << >> THEN 0
  ELSE Head(resultsData).vote_count + SumVoteCounts(Tail(resultsData))

\* fetchResults after the second await: one of the responses under way
\* arrives, whichever call it belongs to; setResults and setTotalVotes.
fetchResultsArrive(v) ==
  /\ views[v].pc = "subscribed"
  /\ \E resultsData \in BagToSet(views[v].inflight) :
       views' = [views EXCEPT ![v].inflight = @ (-) SetToBag({resultsData}),
                              ![v].results = resultsData,
                              ![v].totalVotes = SumVoteCounts(resultsData)]
  /\ UNCHANGED <<tables, ids, create, cast, signIns, reply>>

\* ------------------------------------------------------------ CSV export

Digits == <<"0", "1", "2", "3", "4", "5", "6", "7", "8", "9">>

RECURSIVE NumberToString(_)
\* String(n) for a non-negative integer, as Array.prototype.join applies it
NumberToString(n) ==
  IF n < 10 THEN <<Digits[n + 1]>>
  ELSE NumberToString(n \div 10) \o <<Digits[(n % 10) + 1]>>

\* Mutant: the digits after the second decimal are cut off, not rounded.
toFixed_Truncate(num, den) ==
  LET h == (10000 * num) \div den
  IN NumberToString(h \div 100) \o <<".">> \o <<Digits[((h % 100) \div 10) + 1], Digits[(h % 10) + 1]>>

\* ((num / den) * 100).toFixed(2): the nearest multiple of 0.01, the larger
\* one when two are equally near.
toFixed(num, den) ==
  LET h == (2 * 10000 * num + den) \div (2 * den)
  IN NumberToString(h \div 100) \o <<".">> \o <<Digits[((h % 100) \div 10) + 1], Digits[(h % 10) + 1]>>

\* totalVotes > 0 ? `${((Number(r.vote_count) / totalVotes) * 100).toFixed(2)}%` : "0%"
Percentage(vote_count, totalVotes) ==
  IF totalVotes > 0 THEN toFixed(vote_count, totalVotes) \o <<"%">> ELSE <<"0", "%">>

RECURSIVE join(_, _)
\* Array.prototype.join on an array of strings
join(array, separator) ==
  IF array = << >> THEN << >>
  ELSE IF Len(array) = 1 THEN array[1]
  ELSE array[1] \o separator \o join(Tail(array), separator)

CsvHeader ==
  << <<"C", "a", "n", "d", "i", "d", "a", "t", "e">>, <<"V", "o", "t", "e", "s">>,
     <<"P", "e", "r", "c", "e", "n", "t", "a", "g", "e">> >>

\* The text handleExport puts into the Blob.
ExportCsv(results, totalVotes) ==
  LET rows == <<CsvHeader>> \o
                [i \in 1..Len(results) |->
                   <<results[i].candidate_name, NumberToString(results[i].vote_count),
                     Percentage(results[i].vote_count, totalVotes)>>]
  IN join([i \in 1..Len(rows) |-> join(rows[i], <<",">>)], <<"\n">>)

\* handleExport: the CSV of the displayed results is downloaded.
handleExport(v) ==
  /\ views[v].pc = "subscribed"
  /\ views' = [views EXCEPT ![v].download = ExportCsv(views[v].results, views[v].totalVotes)]
  /\ UNCHANGED <<tables, ids, create, cast, signIns, reply>>

\* ----------------------------------------------------------- behaviours

\* The ids a client can name: those the storage has handed out so far,
\* whether their rows still exist or were deleted.
KnownElections == 1..(nextElectionId - 1)
KnownCandidates == 1..(nextCandidateId - 1)

\* Signup, sign-in, the out-of-band grant, and every statement a principal can
\* send about user_roles.
NextIdentity ==
  \/ SignUp
  \/ \E u \in users : SignIn(u)
  \/ \E u \in users : GrantAdminOutOfBand(u)
  \/ \E u \in users, p \in 1..MaxUsers, role \in Roles : InsertUserRole(u, p, role)
  \/ \E u \in users, p \in users, role, newRole \in Roles : UpdateUserRole(u, p, role, newRole)
  \/ \E u \in users, p \in users, role \in Roles : DeleteUserRole(u, p, role)

\* Election administration.
NextAdmin ==
  \/ \E s \in CreateSessions, u \in users, status \in Statuses, form \in Forms, fail \in BOOLEAN :
       handleCreateElection(s, u, status, form, fail)
  \/ \E s \in CreateSessions, fail \in BOOLEAN : InsertCandidates(s, fail)
  \/ \E s \in CreateSessions, fail \in BOOLEAN : LogElectionCreated(s, fail)
  \/ \E u \in users, id \in KnownElections : handleDeleteElection(u, id)
  \/ \E u \in users, id \in KnownElections, status \in Statuses : UpdateElection(u, id, status)

\* Voting, and every statement a principal can send about votes.
NextCast ==
  \/ \E s \in CastSessions, u \in users, e \in KnownElections : OpenVotePage(s, u, e)
  \/ \E s \in CastSessions : checkIfAlreadyVoted(s)
  \/ \E s \in CastSessions, c \in KnownCandidates, fail \in BOOLEAN : handleSubmitVote(s, c, fail)
  \/ \E s \in CastSessions, fail \in BOOLEAN : LogVoteCast(s, fail)
  \/ \E u \in users, v \in votes, c \in KnownCandidates : UpdateVote(u, v.id, c)
  \/ \E u \in users, v \in votes : DeleteVote(u, v.id)

\* Voting together with the deletions that cascade into votes.
NextBallot ==
  \/ NextCast
  \/ \E u \in users, id \in KnownElections : handleDeleteElection(u, id)
  \/ \E u \in users, c \in KnownCandidates : DeleteCandidate(u, c)

\* Candidate statements sent outside the pages, and election deletion.
NextCandidates ==
  \/ \E u \in users, e \in KnownElections : InsertCandidate(u, e, <<"A">>)
  \/ \E u \in users, c \in KnownCandidates, e \in KnownElections : UpdateCandidate(u, c, e)
  \/ \E u \in users, c \in KnownCandidates : DeleteCandidate(u, c)
  \/ \E u \in users, id \in KnownElections : handleDeleteElection(u, id)

\* Voting while an admin deletes elections.
NextCascade ==
  \/ \E s \in CastSessions, u \in users, e \in KnownElections : OpenVotePage(s, u, e)
  \/ \E s \in CastSessions, c \in KnownCandidates, fail \in BOOLEAN : handleSubmitVote(s, c, fail)
  \/ \E s \in CastSessions, fail \in BOOLEAN : LogVoteCast(s, fail)
  \/ \E u \in users, id \in KnownElections : handleDeleteElection(u, id)

\* Votes inserted by one open ballot page and by statements sent outside it.
NextProxy ==
  \/ \E u \in users, e \in KnownElections, c \in KnownCandidates, voter \in users \cup {NoVoter} :
       InsertVoteAs(u, e, c, voter)
  \/ \E u \in users, e \in KnownElections : OpenVotePage(1, u, e)
  \/ \E c \in KnownCandidates, fail \in BOOLEAN : handleSubmitVote(1, c, fail)
  \/ \E fail \in BOOLEAN : LogVoteCast(1, fail)

\* Results pages loading and reloading while principals vote for a candidate
\* of the election.
NextRefresh ==
  \/ \E v \in ViewSessions, u \in users, e \in KnownElections : OpenResultsPage(v, u, e)
  \/ \E v \in ViewSessions : OnVoteInsert(v)
  \/ \E v \in ViewSessions : fetchResultsElection(v)
  \/ \E v \in ViewSessions : fetchResultsRpc(v)
  \/ \E v \in ViewSessions : fetchResultsArrive(v)
  \/ \E u \in users, e \in KnownElections : \E c \in CandidatesOf(e) : InsertVoteAs(u, e, c, u)

\* The export button of an open results page.
NextExport == \E v \in ViewSessions : handleExport(v)

\* Voting while results pages are open.
NextLive ==
  \/ \E v \in ViewSessions, u \in users, e \in KnownElections : OpenResultsPage(v, u, e)
  \/ \E v \in ViewSessions : OnVoteInsert(v)
  \/ \E v \in ViewSessions : CloseResultsPage(v)
  \/ \E s \in CastSessions, u \in users, e \in KnownElections : OpenVotePage(s, u, e)
  \/ \E s \in CastSessions, c \in KnownCandidates, fail \in BOOLEAN : handleSubmitVote(s, c, fail)
  \/ \E s \in CastSessions, fail \in BOOLEAN : LogVoteCast(s, fail)

Next ==
  \/ NextIdentity
  \/ NextExport
  \/ NextRefresh
  \/ NextProxy
  \/ NextLive
  \/ NextCandidates
  \/ NextCascade
  \/ NextAdmin
  \/ NextBallot

\* Every operation, from the empty database.
Spec == Init /\ [][Next]_vars

\* Principals and their roles, from the empty database.
SpecIdentity == Init /\ [][NextIdentity]_vars

\* The state after two principals signed up (the first without a student
\* number) and the first was made admin: Spec reaches it in three steps.
SeededUsers ==
  /\ users = {1, 2}
  /\ profiles = (1 :> << >>) @@ (2 :> StudentId(1))
  /\ user_roles = SetToBag({<<1, "student">>, <<2, "student">>, <<1, "admin">>})
  /\ elections = << >>
  /\ candidates = << >>
  /\ votes = {}
  /\ audit_logs = {}
  /\ nextElectionId = 1
  /\ nextCandidateId = 1
  /\ nextVoteId = 1
  /\ create = [s \in CreateSessions |-> IdleCreate]
  /\ cast = [s \in CastSessions |-> IdleCast]
  /\ NoClient

\* Election administration by an admin and a student.
SpecAdmin == SeededUsers /\ [][NextAdmin]_vars

\* The state after the admin then created an active and a draft election with
\* two candidates each: SpecAdmin reaches it.
SeededElections ==
  /\ users = {1, 2}
  /\ profiles = (1 :> << >>) @@ (2 :> StudentId(1))
  /\ user_roles = SetToBag({<<1, "student">>, <<2, "student">>, <<1, "admin">>})
  /\ elections = (1 :> [status |-> "active", created_by |-> 1])
                   @@ (2 :> [status |-> "draft", created_by |-> 1])
  /\ candidates = [c \in 1..4 |-> [election_id |-> IF c <= 2 THEN 1 ELSE 2, name |-> <<"A">>]]
  /\ votes = {}
  /\ audit_logs = {AuditRow(s, 1, "election_created", s) : s \in 1..2}
  /\ nextElectionId = 3
  /\ nextCandidateId = 5
  /\ nextVoteId = 1
  /\ create = [s \in CreateSessions |->
                 IF s <= 2 THEN [IdleCreate EXCEPT !.pc = "done", !.user = 1, !.electionId = s,
                                                     !.outcome = "success"]
                 ELSE IdleCreate]
  /\ cast = [s \in CastSessions |-> IdleCast]
  /\ NoClient

\* Voting on the seeded elections.
SpecCast == SeededElections /\ [][NextCast]_vars

\* Voting on the seeded elections while an admin deletes candidates and elections.
SpecBallot == SeededElections /\ [][NextBallot]_vars

\* The seeded elections while the call that creates the second one has
\* inserted its candidates and not yet its audit row: SpecAdmin reaches it.
SeededAuditPending ==
  /\ users = {1, 2}
  /\ profiles = (1 :> << >>) @@ (2 :> StudentId(1))
  /\ user_roles = SetToBag({<<1, "student">>, <<2, "student">>, <<1, "admin">>})
  /\ elections = (1 :> [status |-> "active", created_by |-> 1])
                   @@ (2 :> [status |-> "draft", created_by |-> 1])
  /\ candidates = [c \in 1..4 |-> [election_id |-> IF c <= 2 THEN 1 ELSE 2, name |-> <<"A">>]]
  /\ votes = {}
  /\ audit_logs = {AuditRow(1, 1, "election_created", 1)}
  /\ nextElectionId = 3
  /\ nextCandidateId = 5
  /\ nextVoteId = 1
  /\ create = [s \in CreateSessions |->
                 IF s = 1 THEN [IdleCreate EXCEPT !.pc = "done", !.user = 1, !.electionId = 1,
                                                    !.outcome = "success"]
                 ELSE IF s = 2 THEN [IdleCreate EXCEPT !.pc = "audit", !.user = 1, !.electionId = 2]
                 ELSE IdleCreate]
  /\ cast = [s \in CastSessions |-> IdleCast]
  /\ NoClient

\* The writes that are followed by an audit row.
NextAudit ==
  \/ \E s \in CreateSessions, fail \in BOOLEAN : LogElectionCreated(s, fail)
  \/ \E s \in CastSessions, u \in users, e \in KnownElections : OpenVotePage(s, u, e)
  \/ \E s \in CastSessions, c \in KnownCandidates, fail \in BOOLEAN : handleSubmitVote(s, c, fail)
  \/ \E s \in CastSessions, fail \in BOOLEAN : LogVoteCast(s, fail)

\* Election creation and voting up to their audit rows.
SpecAudit == SeededAuditPending /\ [][NextAudit]_vars

\* Candidate management on the seeded elections.
SpecCandidates == SeededElections /\ [][NextCandidates]_vars

\* Voting on the seeded elections while elections are deleted.
SpecCascade == SeededElections /\ [][NextCascade]_vars

\* Voting on the seeded elections while results pages are open; a change
\* event that arrived is handled (the browser runs the callback).
SpecLive ==
  /\ SeededElections
  /\ [][NextLive]_vars
  /\ \A v \in ViewSessions : WF_vars(OnVoteInsert(v))

\* Vote inserts on the seeded elections, for the sender and for others.
SpecProxy == SeededElections /\ [][NextProxy]_vars

\* Results pages on the seeded elections, their loads in flight, and votes.
SpecRefresh == SeededElections /\ [][NextRefresh]_vars

\* Candidate names on an exported page: single-line text, a comma included.
ExportNames == {<<"A">>, <<"B">>, <<"A", ",">>}

\* The tallies a results page can display: up to MaxRows rows in the order
\* get_vote_counts returns them (vote_count descending).
ExportResults ==
  {r \in UNION {[1..n -> [candidate_id : 1..MaxRows, candidate_name : ExportNames,
                          vote_count : 0..MaxVotes]] : n \in 0..MaxRows} :
     /\ \A i \in 1..Len(r) : r[i].candidate_id = i
     /\ \A i \in 1..(Len(r) - 1) : r[i].vote_count >= r[i + 1].vote_count}

\* An admin's results page on election 1 after a load that displayed any of
\* these tallies; setResults and setTotalVotes are set together.
SeededExport ==
  /\ users = {1, 2}
  /\ profiles = (1 :> << >>) @@ (2 :> StudentId(1))
  /\ user_roles = SetToBag({<<1, "student">>, <<2, "student">>, <<1, "admin">>})
  /\ elections = (1 :> [status |-> "active", created_by |-> 1])
                   @@ (2 :> [status |-> "draft", created_by |-> 1])
  /\ candidates = [c \in 1..4 |-> [election_id |-> IF c <= 2 THEN 1 ELSE 2, name |-> <<"A">>]]
  /\ votes = {}
  /\ audit_logs = {AuditRow(s, 1, "election_created", s) : s \in 1..2}
  /\ nextElectionId = 3
  /\ nextCandidateId = 5
  /\ nextVoteId = 1
  /\ create = [s \in CreateSessions |->
                 IF s <= 2 THEN [IdleCreate EXCEPT !.pc = "done", !.user = 1, !.electionId = s,
                                                     !.outcome = "success"]
                 ELSE IdleCreate]
  /\ cast = [s \in CastSessions |-> IdleCast]
  /\ signIns = [u \in 1..MaxUsers |-> 0]
  /\ reply = NoReply
  /\ \E r \in ExportResults :
       views = [v \in ViewSessions |->
                  IF v = 1 THEN [IdleView EXCEPT !.pc = "subscribed", !.user = 1, !.electionId = 1,
                                                 !.results = r, !.totalVotes = SumVoteCounts(r)]
                  ELSE IdleView]

\* Exporting the displayed tally.
SpecExport == SeededExport /\ [][NextExport]_vars

\* ================================================================ claims

VotesFor(election_id, voter_id) ==
  {v \in votes : v.election_id = election_id /\ v.voter_id = voter_id}

InsertSucceeded(s) ==
  cast[s].pc = "audit" \/ (cast[s].pc = "done" /\ cast[s].outcome = "success")

\* C1: in every reachable state, for every election e and principal p, votes
\* holds at most one row with election_id = e and voter_id = p, whatever
\* castVote calls ran and however they interleaved.
C1_AtMostOneVotePerVoter ==
  \A e \in KnownElections, p \in users : Cardinality(VotesFor(e, p)) <= 1

\* Two calls for the same election and voter both reached the insert: one
\* holds the row, the other was turned away by the constraint.
C1_Witness ==
  \E s1, s2 \in CastSessions :
    /\ cast[s1].user = cast[s2].user /\ cast[s1].electionId = cast[s2].electionId
    /\ cast[s1].pc = "audit"
    /\ cast[s2].pc = "done" /\ cast[s2].outcome = "DuplicateVote"
    /\ Cardinality(VotesFor(cast[s1].electionId, cast[s1].user)) = 1

\* The calls for (e, p) whose insert the unique constraint decided.
Decided(e, p) ==
  {s \in CastSessions :
     /\ cast[s].user = p /\ cast[s].electionId = e
     /\ InsertSucceeded(s) \/ (cast[s].pc = "done" /\ cast[s].outcome = "DuplicateVote")}

\* No vote row was removed (by a cascade) since the ledger was empty.
NoVoteRemoved == Cardinality(votes) = nextVoteId - 1

C2_OneWinner ==
  \A e \in KnownElections, p \in users :
    (NoVoteRemoved /\ Decided(e, p) # {}) =>
      /\ Cardinality({s \in Decided(e, p) : InsertSucceeded(s)}) = 1
      /\ Cardinality(VotesFor(e, p)) = 1

C2_InsertStep ==
  \A s \in CastSessions :
    (cast[s].pc = "mounted" /\ cast'[s].pc # "mounted") =>
      \A c \in KnownCandidates :
        (/\ handleSubmitVote(s, c, FALSE)
         /\ cast[s].electionId \in DOMAIN elections
         /\ c \in DOMAIN candidates) =>
           IF VotesFor(cast[s].electionId, cast[s].user) # {}
             THEN cast'[s].pc = "done" /\ cast'[s].outcome = "DuplicateVote" /\ votes' = votes
             ELSE cast'[s].pc = "audit" /\ Cardinality(votes') = Cardinality(votes) + 1

\* C2: of the castVote calls for one (election, voter) pair that reach the
\* storage with an existing election and candidate, however they interleave
\* and whether or not they passed the client's already-voted lookup, exactly
\* one insert succeeds and every other one ends with DuplicateVote: never two
\* recorded votes, never zero successes.
C2_ExactlyOneSucceeds == []C2_OneWinner /\ [][C2_InsertStep]_vars

\* Two calls for the same election and voter both sent their insert and
\* finished: one reported success, the other DuplicateVote, one row recorded.
C2_Witness ==
  \E s1, s2 \in CastSessions :
    /\ s1 # s2
    /\ cast[s1].user = cast[s2].user /\ cast[s1].electionId = cast[s2].electionId
    /\ cast[s1].pc = "done" /\ cast[s1].outcome = "success"
    /\ cast[s2].pc = "done" /\ cast[s2].outcome = "DuplicateVote"
    /\ NoVoteRemoved /\ Cardinality(votes) = 1

\* C3: for every authenticated caller, admin or not, and every candidate c of
\* election e, get_vote_counts(e) counts exactly the committed vote rows with
\* election_id = e and candidate_id = c, whoever cast them.
C3_TallyReflectsAllVotes ==
  \A u \in users, e \in DOMAIN elections :
    \A result \in get_vote_counts(e, u) :
      \A i \in DOMAIN result :
        result[i].vote_count =
          Cardinality({v \in votes : v.election_id = e
                                      /\ v.candidate_id = result[i].candidate_id})

\* C4: get_vote_counts(e) returns exactly one row per candidate of e, also for
\* a candidate without votes, no row for a candidate of another election, and
\* the rows in non-increasing order of vote_count.
C4_TallyShape ==
  \A u \in users, e \in KnownElections :
    \A result \in get_vote_counts(e, u) :
      /\ Len(result) = Cardinality(CandidatesOf(e))
      /\ {result[i].candidate_id : i \in DOMAIN result} = CandidatesOf(e)
      /\ \A i \in DOMAIN result : candidates[result[i].candidate_id].election_id = e
      /\ \A i, j \in DOMAIN result : i < j => result[i].vote_count >= result[j].vote_count

\* Votes [A, A] on an election with candidates A, B: the tally is [(A,2),(B,0)],
\* and the other election's tally holds its own two candidates with 0.
C4_Witness ==
  \E u \in users, e, f \in DOMAIN elections :
    /\ e # f
    /\ \E result \in get_vote_counts(e, u) :
         Len(result) = 2 /\ result[1].vote_count = 2 /\ result[2].vote_count = 0
    /\ \E result \in get_vote_counts(f, u) :
         Len(result) = 2 /\ result[1].vote_count = 0 /\ result[2].vote_count = 0

\* C5: every recorded vote's candidate belongs to the vote's election.
C5_CandidateBelongsToElection ==
  \A v \in votes :
    /\ v.candidate_id \in DOMAIN candidates
    /\ candidates[v.candidate_id].election_id = v.election_id

\* C6: election creation is all-or-nothing: a handleCreateElection call that
\* failed leaves no election row of its own, and no finished call leaves its
\* election with fewer than two candidates.
C6_CreateAllOrNothing ==
  \A s \in CreateSessions :
    (create[s].pc = "done" /\ create[s].electionId \in DOMAIN elections) =>
      /\ create[s].outcome = "success"
      /\ Cardinality(CandidatesOf(create[s].electionId)) >= 2

\* C7: a vote row is never changed, and leaves the table only together with
\* its election.
C7_VoteStep ==
  \A v \in votes : v.election_id \in DOMAIN elections' => v \in votes'

C7_VotesImmutable == [][C7_VoteStep]_vars

FewerThanTwoNamed(form) ==
  Cardinality({i \in DOMAIN form : \E j \in DOMAIN form[i] : form[i][j] # " "}) < 2

C8_CreateStep ==
  \A s \in CreateSessions :
    (create[s].pc = "idle" /\ create'[s].pc # "idle"
       /\ ~has_role(create'[s].user, "admin")) =>
      /\ UNCHANGED <<elections, candidates, audit_logs>>
      /\ create'[s].pc = "done"
      /\ create'[s].outcome \in {"PermissionDenied", "ValidationError", "DependencyFailure"}
      /\ \A form \in Forms :
           ~FewerThanTwoNamed(form) =>
             \A status \in Statuses :
               handleCreateElection(s, create'[s].user, status, form, FALSE)
                 => create'[s].outcome = "PermissionDenied"

\* C8: handleCreateElection by a caller without the admin role fails and leaves
\* elections, candidates and audit_logs unchanged; when its insert reaches the
\* storage the failure is PermissionDenied.
C8_NonAdminCreateDenied == [][C8_CreateStep]_vars

C8_Witness ==
  \E s \in CreateSessions :
    /\ create[s].pc = "done" /\ create[s].outcome = "PermissionDenied"
    /\ ~has_role(create[s].user, "admin")
    /\ \E a \in users : has_role(a, "admin")

\* C9: a read of elections by a non-admin returns only active elections,
\* whatever filter it carries; an admin's read returns every election the
\* filter selects.
C9_NonAdminSeesOnlyActive ==
  \A u \in users :
    \A filter \in Statuses \cup {"none"} :
      IF has_role(u, "admin")
        THEN SelectElections(u, filter) =
               {e \in DOMAIN elections : filter = "none" \/ elections[e].status = filter}
        ELSE \A e \in SelectElections(u, filter) : elections[e].status = "active"

\* A draft and an active election exist; the non-admin's unfiltered read
\* returns the active one only and its dashboard shows it.
C9_Witness ==
  \E u \in users, d, a \in DOMAIN elections :
    /\ ~has_role(u, "admin")
    /\ elections[d].status = "draft" /\ elections[a].status = "active"
    /\ SelectElections(u, "none") = {a}
    /\ fetchElections(u) = {a}
    /\ SelectElections(u, "draft") = {}

C10_CreateStep ==
  \A s \in CreateSessions :
    (create[s].pc = "idle" /\ create'[s].pc # "idle"
       /\ has_role(create'[s].user, "admin")) =>
      \A form \in Forms :
        FewerThanTwoNamed(form) =>
          \A status \in Statuses, fail \in BOOLEAN :
            handleCreateElection(s, create'[s].user, status, form, fail) =>
              /\ create'[s].pc = "done" /\ create'[s].outcome = "ValidationError"
              /\ UNCHANGED <<elections, candidates, audit_logs, ids>>

\* C10: handleCreateElection by an admin with fewer than two candidates whose
\* name is not blank ends with the validation error before any write.
C10_TooFewCandidatesRejected == [][C10_CreateStep]_vars

C10_Witness ==
  \E s \in CreateSessions :
    /\ create[s].pc = "done" /\ create[s].outcome = "ValidationError"
    /\ has_role(create[s].user, "admin")
    /\ elections = << >> /\ candidates = << >> /\ audit_logs = {}

\* C11: once an election is deleted, no candidate row and no vote row refers
\* to it, and every later read of its candidates and of its tally, by any
\* principal, is empty.
C11_DeletedElectionLeavesNothing ==
  \A e \in KnownElections \ DOMAIN elections :
    /\ CandidatesOf(e) = {}
    /\ {v \in votes : v.election_id = e \/ v.candidate_id \in CandidatesOf(e)} = {}
    /\ \A u \in users : SelectCandidates(u, e) = {} /\ get_vote_counts(e, u) = {<< >>}

\* An election that held a recorded vote was deleted, and a VotePage opened
\* on it before the deletion sent its insert afterwards.
C11_Witness ==
  \E e \in KnownElections \ DOMAIN elections :
    \E s1, s2 \in CastSessions :
      /\ cast[s1].electionId = e /\ InsertSucceeded(s1)
      /\ cast[s2].electionId = e /\ cast[s2].pc = "done"
      /\ cast[s2].outcome = "ForeignKeyViolation"

\* C12: an update or delete of an election by a non-admin ends with
\* PermissionDenied, and one naming an id that does not exist ends with
\* NotFound; neither is reported as a successful update or deletion.
C12_UpdateDeleteReportFailures ==
  \A u \in users, id \in 1..nextElectionId :
    /\ ~has_role(u, "admin") =>
         /\ ElectionsDeleteError(u, id, FALSE) = "PermissionDenied"
         /\ ElectionsUpdateError(u, id, FALSE) = "PermissionDenied"
         /\ handleDeleteElectionToast(u, id, FALSE) # "Election deleted successfully"
    /\ (has_role(u, "admin") /\ id \notin DOMAIN elections) =>
         /\ ElectionsDeleteError(u, id, FALSE) = "NotFound"
         /\ ElectionsUpdateError(u, id, FALSE) = "NotFound"
         /\ handleDeleteElectionToast(u, id, FALSE) # "Election deleted successfully"

C13_AuditStep ==
  /\ \A s \in CastSessions :
       (cast[s].pc = "audit" /\ cast'[s].pc # "audit") =>
         /\ cast'[s].pc = "done" /\ cast'[s].outcome = "success"
         /\ UNCHANGED <<elections, candidates, votes>>
         /\ VotesFor(cast[s].electionId, cast[s].user) # {}
  /\ \A s \in CreateSessions :
       (create[s].pc = "audit" /\ create'[s].pc # "audit") =>
         /\ create'[s].pc = "done" /\ create'[s].outcome = "success"
         /\ UNCHANGED <<elections, candidates, votes>>
         /\ create[s].electionId \in DOMAIN elections
         /\ Cardinality(CandidatesOf(create[s].electionId)) >= 2

\* C13: when the audit_logs insert that follows a committed vote, or a
\* committed election with its candidates, fails, the call still ends reported
\* as succeeded and the committed rows remain.
C13_AuditFailureNonFatal == [][C13_AuditStep]_vars

\* A vote call and a create call both ended in success without their audit row.
C13_Witness ==
  \E s \in CastSessions, t \in CreateSessions :
    /\ cast[s].pc = "done" /\ cast[s].outcome = "success"
    /\ AuditRow(s, cast[s].user, "vote_cast", cast[s].electionId) \notin audit_logs
    /\ VotesFor(cast[s].electionId, cast[s].user) # {}
    /\ create[t].pc = "done" /\ create[t].outcome = "success"
    /\ AuditRow(t, create[t].user, "election_created", create[t].electionId) \notin audit_logs
    /\ create[t].electionId \in DOMAIN elections

\* C14: a read of user_roles by a principal without the admin role returns no
\* role-assignment row, in particular none of another principal.
C14_RolesReadableByAdminsOnly ==
  \A u \in users : ~has_role(u, "admin") => SelectUserRoles(u) = {}

HoldsAdminNext(p) == BagIn(<<p, "admin">>, user_roles')

C15_RoleStep ==
  /\ \A p \in users :
       (~has_role(p, "admin") /\ HoldsAdminNext(p)) =>
         \/ GrantAdminOutOfBand(p)
         \/ \E a \in users :
              /\ has_role(a, "admin")
              /\ InsertUserRole(a, p, "admin") \/ UpdateUserRole(a, p, "student", "admin")
  /\ \A u \in users :
       (~has_role(u, "admin") /\ reply' # reply /\ reply'.by = u) =>
         /\ user_roles' = user_roles
         /\ reply'.rows = 0
  /\ (user_roles' # user_roles /\ users' = users) =>
       \/ \E p \in users : GrantAdminOutOfBand(p)
       \/ \E a \in users :
            /\ has_role(a, "admin")
            /\ reply'.by = a /\ reply'.outcome = "ok" /\ reply'.rows = 1
  /\ \A id \in 1..MaxUsers :
       (id \notin users /\ id \in users') =>
         /\ CopiesIn(<<id, "student">>, user_roles') = 1
         /\ ~HoldsAdminNext(id)
         /\ \A p \in users, role \in Roles :
              CopiesIn(<<p, role>>, user_roles') = CopiesIn(<<p, role>>, user_roles)

\* C15: a principal that does not hold admin comes to hold it only by the
\* out-of-band grant or by a statement of a principal that holds admin: no
\* signup, sign-in or user_roles statement of a non-admin changes a role row,
\* and a signup gives the new principal the student role and nothing else.
C15_AdminOnlyOutOfBand == [][C15_RoleStep]_vars

\* Nobody holds admin; a student that signed up and signed in sent an insert
\* into user_roles and was refused.
C15_Witness ==
  \E u \in users :
    /\ \A p \in users : ~has_role(p, "admin")
    /\ Cardinality(users) >= 2
    /\ signIns[u] >= 1
    /\ reply = Reply(u, "PermissionDenied", 0)
    /\ BagToSet(user_roles) = {<<p, "student">> : p \in users}

\* C16: after any number of authentications a principal has exactly one
\* profile row and exactly one (principal, student) role assignment, and
\* (principal, role) pairs are unique in every reachable state.
C16_ExactlyOneStudentRole ==
  \A p \in users :
    /\ signIns[p] >= 1 =>
         /\ p \in DOMAIN profiles
         /\ CopiesIn(<<p, "student">>, user_roles) = 1
    /\ \A role \in Roles : CopiesIn(<<p, role>>, user_roles) <= 1

C16_Unique ==
  \A p \in users :
    /\ p \in DOMAIN profiles
    /\ \A role \in Roles : CopiesIn(<<p, role>>, user_roles) <= 1

C16_Step ==
  /\ signIns' # signIns => UNCHANGED <<users, profiles, user_roles>>
  /\ \A p \in users :
       (has_role(p, "student") /\ ~BagIn(<<p, "student">>, user_roles')) =>
         \E a \in users :
           /\ has_role(a, "admin")
           /\ DeleteUserRole(a, p, "student") \/ UpdateUserRole(a, p, "student", "admin")

\* C16 as amended: a sign-in changes no profile and no role row; a principal
\* has exactly one profile row and at most one (principal, student) role
\* assignment, which it loses only by a delete or update sent by an admin;
\* (principal, role) pairs are unique in every reachable state.
C16_BootstrapIdempotent == []C16_Unique /\ [][C16_Step]_vars

\* A principal signed in again and still has its one profile and one student
\* role; an admin's insert of the same pair was refused as a duplicate.
C16_Witness ==
  \E p, a \in users :
    /\ signIns[p] = MaxSignIns
    /\ p \in DOMAIN profiles
    /\ CopiesIn(<<p, "student">>, user_roles) = 1
    /\ has_role(a, "admin")
    /\ reply = Reply(a, "DuplicateRole", 0)

\* C17: in every reachable state a principal exists if and only if both its
\* profile row and its student role assignment exist.
C17_PrincipalIffProfileAndRole ==
  \A id \in 1..MaxUsers :
    id \in users <=> (id \in DOMAIN profiles /\ has_role(id, "student"))

C17_Together ==
  \A id \in 1..MaxUsers :
    /\ id \in users <=> id \in DOMAIN profiles
    /\ id \notin users => \A role \in Roles : ~has_role(id, role)

C17_SignupStep ==
  \A id \in (1..MaxUsers) \ users :
    /\ (reply' # reply /\ reply'.by = id) =>
         IF reply'.outcome = "ok"
           THEN /\ users' = users \cup {id}
                /\ id \in DOMAIN profiles'
                /\ CopiesIn(<<id, "student">>, user_roles') = 1
           ELSE UNCHANGED <<users, profiles, user_roles>>
    /\ id \in users' => reply' = Reply(id, "ok", 1)

\* C17 as amended: a principal exists if and only if its profile row exists,
\* and role assignments belong to existing principals only; a signup adds the
\* principal, its profile and its student role in one step, and a signup in
\* which an insert of handle_new_user fails leaves no principal, no profile
\* and no role assignment.
C17_BootstrapAtomic == []C17_Together /\ [][C17_SignupStep]_vars

\* A signup was refused inside handle_new_user (its student number is taken):
\* the principal it would have created does not exist and has no row.
C17_Witness ==
  \E id \in (1..MaxUsers) \ users :
    /\ reply = Reply(id, "DuplicateStudentId", 0)
    /\ users # {}
    /\ id \notin DOMAIN profiles
    /\ \A role \in Roles : ~has_role(id, role)

C18_ReferencesExist ==
  \A c \in DOMAIN candidates : candidates[c].election_id \in DOMAIN elections

C18_CandidateStep ==
  /\ \A u \in users :
       (~has_role(u, "admin") /\ reply' # reply /\ reply'.by = u) =>
         /\ candidates' = candidates
         /\ reply'.rows = 0
  /\ candidates' # candidates =>
       \E a \in users :
         /\ has_role(a, "admin")
         /\ \/ \E e \in DOMAIN elections : InsertCandidate(a, e, <<"A">>)
            \/ \E c \in DOMAIN candidates, e \in DOMAIN elections : UpdateCandidate(a, c, e)
            \/ \E c \in DOMAIN candidates : DeleteCandidate(a, c)
            \/ \E id \in DOMAIN elections : handleDeleteElection(a, id)
  /\ (reply' # reply /\ reply'.outcome # "ok") => candidates' = candidates

\* C18: a candidate insert, update or delete changes a row only when sent by
\* a principal holding admin and only when the election it names exists: a
\* non-admin's statement changes no candidate row, an insert or update naming
\* a missing election is refused, and every candidate row references an
\* existing election in every reachable state.
C18_CandidatesAdminOnlyAndReferenced == []C18_ReferencesExist /\ [][C18_CandidateStep]_vars

\* An election was deleted; the admin then added a candidate to the election
\* that is left and was refused one for the deleted election.
C18_Witness ==
  \E a \in users, e \in KnownElections \ DOMAIN elections :
    /\ has_role(a, "admin")
    /\ reply = Reply(a, "ForeignKeyViolation", 0)
    /\ CandidatesOf(e) = {}
    /\ \E c \in DOMAIN candidates : c >= 5

C19_InsertStep ==
  \A v \in ViewSessions :
    (/\ views[v].pc = "subscribed"
     /\ \E row \in votes' \ votes : row.election_id = views[v].electionId) =>
      views'[v].events = views[v].events + 1

C19_EventHandled ==
  \A v \in ViewSessions : \A n \in 0..MaxCasts :
    (views[v].pc = "subscribed" /\ views[v].events > 0 /\ views[v].refreshes = n)
      ~> (views[v].pc # "subscribed" \/ views[v].refreshes > n)

\* C19: while a results view is subscribed to election e, every committed vote
\* insert for e, by any voter, puts a change event on its way to that view,
\* whatever the viewer's role, and every such event ends in a tally refresh.
C19_LiveResults == [][C19_InsertStep]_vars /\ C19_EventHandled

\* The messages the two pages define themselves.
ApplicationMessages ==
  {"Vote submitted successfully!", "You have already voted in this election",
   "Please select a candidate", "Failed to submit vote", "Failed to load election details",
   "Election created successfully!", "Please add at least 2 candidates",
   "Failed to create election"}

\* C20: every castVote or createElection call that fails shows one of the
\* application's own messages, never the storage's error text, and a
\* duplicate vote shows a message other than the generic failure message.
C20_NoRawStorageErrorShown ==
  /\ \A s \in CastSessions :
       cast[s].pc = "done" =>
         /\ handleSubmitVoteToast(cast[s].outcome) \in ApplicationMessages
         /\ cast[s].outcome = "DuplicateVote" =>
              handleSubmitVoteToast(cast[s].outcome) # "Failed to submit vote"
  /\ \A s \in CreateSessions :
       create[s].pc = "done" =>
         handleCreateElectionToast(create[s].outcome) \in ApplicationMessages

C22_VoteInsertStep ==
  /\ \A u \in users, voter \in users \cup {NoVoter} :
       \A e \in KnownElections, c \in KnownCandidates :
         InsertVoteAs(u, e, c, voter) =>
           \A row \in votes' \ votes : row.voter_id = u
  /\ \A u \in users, voter \in users \cup {NoVoter} :
       voter # u =>
         \A e \in KnownElections, c \in KnownCandidates :
           InsertVoteAs(u, e, c, voter) =>
             /\ votes' = votes
             /\ reply' = Reply(u, "PermissionDenied", 0)
  /\ \A s \in CastSessions :
       (cast[s].pc = "mounted" /\ cast'[s].pc = "audit") =>
         \A row \in votes' \ votes : row.voter_id = cast[s].user
  /\ \A row \in votes' \ votes : row.voter_id \in users

\* C22: every vote row recorded carries as voter_id the principal whose
\* insert created it; an insert naming another principal, or none, is
\* refused with PermissionDenied and records nothing.
C22_NoVoteOnBehalf == [][C22_VoteInsertStep]_vars

\* A principal's insert naming the other principal was refused while the
\* other principal has no vote in any election; its own vote is recorded.
C22_Witness ==
  \E u, p \in users :
    /\ u # p
    /\ reply = Reply(u, "PermissionDenied", 0)
    /\ \A row \in votes : row.voter_id = u
    /\ votes # {}

C23_ActiveAtInsert ==
  \A row \in votes' \ votes : elections[row.election_id].status = "active"

\* C23: a vote is recorded only for an election whose status is active at
\* the time of the insert; no insert for a draft or closed election succeeds.
C23_VotesOnlyWhenActive == [][C23_ActiveAtInsert]_vars

C25_SignupWithoutStudentId ==
  handle_new_user(NoStudentId) =>
    LET id == Cardinality(users) + 1
    IN /\ reply' = Reply(id, "ok", 1)
       /\ users' = users \cup {id}
       /\ id \in DOMAIN profiles'
       /\ BagIn(<<id, "student">>, user_roles')

\* C25: a signup that supplies no student identifier succeeds in every
\* reachable state, creating the principal, its profile and its student
\* role, also when principals without a student identifier already exist.
C25_StudentIdOptional == [][C25_SignupWithoutStudentId]_vars

\* Every fetchResults call of view v has completed and no event waits.
C24_Settled(v) ==
  /\ views[v].pc = "subscribed"
  /\ views[v].events = 0
  /\ views[v].calls = 0
  /\ views[v].selected = 0
  /\ views[v].inflight = EmptyBag

\* C24: once every fetchResults call of a view has completed, the displayed
\* results and totalVotes are the tally of the ledger as it is then, whatever
\* the order in which the responses arrived. Stated for viewers who may read
\* every vote (admins), whose tally is the ledger's.
C24_NoStaleResults ==
  \A v \in ViewSessions :
    (C24_Settled(v) /\ has_role(views[v].user, "admin")) =>
      /\ views[v].results \in get_vote_counts(views[v].electionId, views[v].user)
      /\ views[v].totalVotes =
           Cardinality({row \in votes : row.election_id = views[v].electionId})

RECURSIVE SplitOn(_, _)
\* The pieces of text between the occurrences of the character ch.
SplitOn(text, ch) ==
  IF \A i \in 1..Len(text) : text[i] # ch THEN <<text>>
  ELSE LET i == CHOOSE k \in 1..Len(text) : text[k] = ch /\ \A j \in 1..(k - 1) : text[j] # ch
       IN <<SubSeq(text, 1, i - 1)>> \o SplitOn(SubSeq(text, i + 1, Len(text)), ch)

IsNumeral(text) ==
  /\ Len(text) > 0
  /\ \A i \in 1..Len(text) : \E d \in 1..10 : Digits[d] = text[i]

RECURSIVE ParseNumeral(_)
ParseNumeral(text) ==
  IF text = << >> THEN 0
  ELSE 10 * ParseNumeral(SubSeq(text, 1, Len(text) - 1))
         + (CHOOSE d \in 0..9 : Digits[d + 1] = text[Len(text)])

\* text is vote_count/total*100 written with two decimals and a percent sign: a
\* numeral, a point, two digits, "%", no further from the quotient than half
\* a hundredth.
C21_IsPercentageOf(text, vote_count, total) ==
  LET n == Len(text)
  IN /\ n >= 5
     /\ text[n] = "%"
     /\ text[n - 3] = "."
     /\ IsNumeral(SubSeq(text, 1, n - 4))
     /\ IsNumeral(SubSeq(text, n - 2, n - 1))
     /\ LET h == 100 * ParseNumeral(SubSeq(text, 1, n - 4)) + ParseNumeral(SubSeq(text, n - 2, n - 1))
        IN /\ 2 * (h * total) <= 2 * (10000 * vote_count) + total
           /\ 2 * (10000 * vote_count) <= 2 * (h * total) + total

\* The line of the file for one tally row: the name, the votes and the
\* percentage, separated by commas (the last two commas of the line).
C21_IsLineOf(line, r, total) ==
  LET fields == SplitOn(line, ",")
      n == Len(fields)
  IN /\ n >= 3
     /\ SplitOn(r.candidate_name, ",") = SubSeq(fields, 1, n - 2)
     /\ IsNumeral(fields[n - 1])
     /\ ParseNumeral(fields[n - 1]) = r.vote_count
     /\ IF total > 0 THEN C21_IsPercentageOf(fields[n], r.vote_count, total)
                     ELSE fields[n] = <<"0", "%">>

\* C21: the exported file is the header line Candidate,Votes,Percentage and
\* one line per tally row, in order; a row's percentage is votes/total*100
\* with two decimals and "%" when the total is positive, and the literal 0%
\* on every row when the total is zero.
C21_CsvExport ==
  \A v \in ViewSessions :
    views[v].download # << >> =>
      LET lines == SplitOn(views[v].download, "\n")
          total == SumVoteCounts(views[v].results)
      IN /\ Len(lines) = 1 + Len(views[v].results)
         /\ lines[1] = <<"C", "a", "n", "d", "i", "d", "a", "t", "e", ",", "V", "o", "t", "e", "s", ",",
                          "P", "e", "r", "c", "e", "n", "t", "a", "g", "e">>
         /\ \A i \in 1..Len(views[v].results) :
              C21_IsLineOf(lines[i + 1], views[v].results[i], total)

\* The tally A: 3, B: 1 was exported as A,3,75.00% and B,1,25.00%.
C21_Witness ==
  \E v \in ViewSessions :
    /\ Len(views[v].results) = 2
    /\ views[v].results[1].candidate_name = <<"A">> /\ views[v].results[1].vote_count = 3
    /\ views[v].results[2].candidate_name = <<"B">> /\ views[v].results[2].vote_count = 1
    /\ SplitOn(views[v].download, "\n")
         = << <<"C", "a", "n", "d", "i", "d", "a", "t", "e", ",", "V", "o", "t", "e", "s", ",",
                "P", "e", "r", "c", "e", "n", "t", "a", "g", "e">>,
              <<"A", ",", "3", ",", "7", "5", ".", "0", "0", "%">>,
              <<"B", ",", "1", ",", "2", "5", ".", "0", "0", "%">> >>

====
